---- MODULE Spec2Model ----
(***************************************************************************)
(* A model of seri: the field types of seri/fields.py, the schema          *)
(* reflection of SerializerMeta and the encode/decode engine of            *)
(* Serializer (seri/serializers.py).                                       *)
(*                                                                         *)
(* Python values are tagged records [t |-> type, v |-> payload]:           *)
(*   bytes  a sequence of byte values 0..255                               *)
(*   int    an integer                                                     *)
(*   str    a sequence of Unicode code points                              *)
(*   list   a sequence of values                                           *)
(*   dict   a sequence of <<key, value>> pairs in insertion order          *)
(* A call's outcome is a record whose err is "" for a normal return and    *)
(* the exception's class name otherwise.                                   *)
(***************************************************************************)
EXTENDS Integers, Sequences, FiniteSets, TLC

VARIABLES
    classes,              \* the schema classes defined so far, oldest first
    length,               \* field object -> its `length` attribute
    deserialize_predicate,\* field object -> its `deserialize_predicate` attribute
    serialize_predicate,  \* field object -> its `serialize_predicate` attribute
    last,                 \* the last call made and what it returned or raised
    frames                \* thread -> the frame of its decode call in flight

vars == <<classes, length, deserialize_predicate, serialize_predicate, last, frames>>

(***************************************************************************)
(* Bounds of the model.                                                    *)
(***************************************************************************)
MaxData == 2        \* longest input buffer
MaxStr == 2         \* longest str or bytes value handed to serialize
MaxFields == 2      \* most fields declared on the schema under test

(***************************************************************************)
(* Python built-ins used by the code.                                      *)
(***************************************************************************)
Min(a, b) == IF a < b THEN a ELSE b

\* seq[:n] for n >= 0
Take(seq, n) == SubSeq(seq, 1, Min(n, Len(seq)))

\* seq[n:] for n >= 0
Drop(seq, n) == SubSeq(seq, n + 1, Len(seq))

\* seq[::-1]
Reverse(seq) == [i \in 1..Len(seq) |-> seq[Len(seq) + 1 - i]]

RECURSIVE Pow256(_)
Pow256(n) == IF n = 0 THEN 1 ELSE 256 * Pow256(n - 1)

\* int.from_bytes(bs, byteorder='little', signed=False)
RECURSIVE int_from_bytes(_)
int_from_bytes(bs) ==
    IF bs = <<>> THEN 0 ELSE bs[1] + 256 * int_from_bytes(Tail(bs))

\* the n little-endian bytes of v, for 0 <= v < 256^n
RECURSIVE LittleEndian(_, _)
LittleEndian(v, n) ==
    IF n = 0 THEN <<>> ELSE <<v % 256>> \o LittleEndian(v \div 256, n - 1)

\* the index of the first b in seq, 0 when there is none
RECURSIVE IndexFrom(_, _, _)
IndexFrom(seq, b, i) ==
    IF i > Len(seq) THEN 0
    ELSE IF seq[i] = b THEN i ELSE IndexFrom(seq, b, i + 1)

\* the code points of bytes 128..255 in code page 437 (bytes 0..127 are ASCII)
Cp437High == <<
    199, 252, 233, 226, 228, 224, 229, 231, 234, 235, 232, 239, 238, 236, 196, 197,
    201, 230, 198, 244, 246, 242, 251, 249, 255, 214, 220, 162, 163, 165, 8359, 402,
    225, 237, 243, 250, 241, 209, 170, 186, 191, 8976, 172, 189, 188, 161, 171, 187,
    9617, 9618, 9619, 9474, 9508, 9569, 9570, 9558, 9557, 9571, 9553, 9559, 9565, 9564, 9563, 9488,
    9492, 9524, 9516, 9500, 9472, 9532, 9566, 9567, 9562, 9556, 9577, 9574, 9568, 9552, 9580, 9575,
    9576, 9572, 9573, 9561, 9560, 9554, 9555, 9579, 9578, 9496, 9484, 9608, 9604, 9612, 9616, 9600,
    945, 223, 915, 960, 931, 963, 181, 964, 934, 920, 937, 948, 8734, 966, 949, 8745,
    8801, 177, 8805, 8804, 8992, 8993, 247, 8776, 176, 8729, 183, 8730, 8319, 178, 9632, 160 >>

\* bytes.decode(STRING_CODEC): every byte has a code point
decode_byte(b) == IF b < 128 THEN b ELSE Cp437High[b - 127]

bytes_decode(bs) == [i \in 1..Len(bs) |-> decode_byte(bs[i])]

\* str.encode(STRING_CODEC): the byte of a code point, -1 when the code page has none
encode_char(c) ==
    IF c < 128 THEN c
    ELSE IF \E i \in 1..Len(Cp437High) : Cp437High[i] = c
    THEN 127 + CHOOSE i \in 1..Len(Cp437High) : Cp437High[i] = c
    ELSE -1

Encodable(s) == \A i \in 1..Len(s) : encode_char(s[i]) >= 0

str_encode(s) == [i \in 1..Len(s) |-> encode_char(s[i])]

(***************************************************************************)
(* Values and outcomes.                                                    *)
(***************************************************************************)
VBytes(bs) == [t |-> "bytes", v |-> bs]
VInt(n) == [t |-> "int", v |-> n]
VStr(s) == [t |-> "str", v |-> s]
VList(l) == [t |-> "list", v |-> l]
VDict(d) == [t |-> "dict", v |-> d]
None == [t |-> "None", v |-> <<>>]

\* d[key] of a dict payload; None when the key is absent
RECURSIVE DictGet(_, _)
DictGet(d, key) ==
    IF d = <<>> THEN None
    ELSE IF d[1][1] = key THEN d[1][2] ELSE DictGet(Tail(d), key)

DictKeys(d) == [i \in 1..Len(d) |-> d[i][1]]

DictHas(d, key) == \E i \in 1..Len(d) : d[i][1] = key

\* Python's ==: dicts compare as mappings, everything else structurally
RECURSIVE PyEq(_, _)
PyEq(a, b) ==
    IF a.t # b.t THEN FALSE
    ELSE IF a.t = "dict"
    THEN /\ Len(a.v) = Len(b.v)
         /\ \A i \in 1..Len(a.v) :
                /\ DictHas(b.v, a.v[i][1])
                /\ PyEq(a.v[i][2], DictGet(b.v, a.v[i][1]))
    ELSE IF a.t = "list"
    THEN /\ Len(a.v) = Len(b.v)
         /\ \A i \in 1..Len(a.v) : PyEq(a.v[i], b.v[i])
    ELSE a.v = b.v

\* len(obj) of a str, bytes or list
PyLen(obj) == Len(obj.v)

\* a decode that returned (value, consumed), leaving the length attributes at len
Returned(value, consumed, len) ==
    [err |-> "", value |-> value, consumed |-> consumed, length |-> len]

\* a decode that raised
Raised(err, len) ==
    [err |-> err, value |-> None, consumed |-> 0, length |-> len]

\* an encode that returned data
Encoded(data) == [err |-> "", data |-> data]

\* an encode that raised
EncodeRaised(err) == [err |-> err, data |-> <<>>]

(***************************************************************************)
(* The field objects of the model: one instance per constructor call.      *)
(***************************************************************************)
NoLength == -1      \* the object has no `length` attribute

\* the magic of the ByteArray built with file_magic_validator
Magic == <<1>>

NewField(cls, len, length_field, element_field, serializer, validator) ==
    [cls |-> cls, length |-> len, length_field |-> length_field,
     element_field |-> element_field, serializer |-> serializer,
     validator |-> validator]

Obj ==
    [ ba    |-> NewField("ByteArray", 2, "", "", "", "None"),
      mg    |-> NewField("ByteArray", 1, "", "", "", "file_magic"),
      u8    |-> NewField("UInt8", 1, "", "", "", "None"),
      u16   |-> NewField("UInt16", 2, "", "", "", "None"),
      zs    |-> NewField("ZString", NoLength, "", "", "", "None"),
      fs    |-> NewField("FixedString", 2, "", "", "", "None"),
      ds    |-> NewField("DynamicString", 0, "", "", "", "None"),
      dl_e  |-> NewField("UInt8", 1, "", "", "", "None"),
      dl    |-> NewField("DynamicList", 0, "", "dl_e", "", "None"),
      s_len |-> NewField("UInt8", 1, "", "", "", "None"),
      el_s  |-> NewField("EncodedLength", NoLength, "s_len", "ds", "", "None"),
      l_len |-> NewField("UInt8", 1, "", "", "", "None"),
      el_l  |-> NewField("EncodedLength", NoLength, "l_len", "dl", "", "None"),
      in_x  |-> NewField("UInt8", 1, "", "", "", "None"),
      in_y  |-> NewField("UInt8", 1, "", "", "", "None"),
      ns    |-> NewField("NestedSerializer", NoLength, "", "", "Inner", "None") ]

FieldIds == DOMAIN Obj

\* the `length` attributes as the constructors and class bodies set them
InitLength == [f \in FieldIds |-> Obj[f].length]

(***************************************************************************)
(* seri/fields.py.  `self` is a field object, `len` the length attributes  *)
(* of all field objects as the call finds them.                            *)
(***************************************************************************)

\* BaseField.validate: "" when the validator accepts, else the error raised
BaseField_validate(self, value) ==
    IF Obj[self].validator = "None" THEN ""
    ELSE IF value.t = "bytes" /\ value.v = Magic THEN "" ELSE "ValidationError"

ByteArray_deserialize(self, data, len) ==
    Returned(VBytes(Take(data, len[self])), len[self], len)

ByteArray_serialize(self, obj, len) ==
    Encoded(Take(obj.v, len[self]))

UInt8_deserialize(self, data, len) ==
    Returned(VInt(int_from_bytes(Take(data, len[self]))), len[self], len)

UInt8_serialize(self, obj, len) ==
    IF obj.v < 0 \/ obj.v >= Pow256(len[self])
    THEN EncodeRaised("OverflowError")
    ELSE Encoded(LittleEndian(obj.v, len[self]))

ZString_deserialize(self, data, len) ==
    LET i == IndexFrom(data, 0, 1)
        mbs == Take(data, i - 1)
    IN  IF i = 0 THEN Raised("ValueError", len)
        ELSE Returned(VStr(bytes_decode(mbs)), Len(mbs) + 1, len)

ZString_serialize(self, obj, len) ==
    IF ~Encodable(obj.v) THEN EncodeRaised("UnicodeEncodeError")
    ELSE Encoded(str_encode(obj.v) \o <<0>>)

DynamicString_deserialize(self, data, len) ==
    LET mbs == Take(data, len[self])
    IN  Returned(VStr(bytes_decode(mbs)), Len(mbs), len)

DynamicString_serialize(self, obj, len) ==
    IF ~Encodable(obj.v) THEN EncodeRaised("UnicodeEncodeError")
    ELSE Encoded(str_encode(obj.v))

RECURSIVE Field_deserialize(_, _, _)
RECURSIVE Field_serialize(_, _, _)
RECURSIVE Serializer_deserialize(_, _, _)
RECURSIVE Serializer_serialize(_, _, _)
RECURSIVE Serializer_deserialize_loop(_, _, _, _, _, _, _)

\* the loop of DynamicList.deserialize, with n elements still to read
RECURSIVE DynamicList_deserialize_loop(_, _, _, _, _, _)
DynamicList_deserialize_loop(self, data, n, offset, elements, len) ==
    IF n <= 0 THEN Returned(VList(elements), offset, len)
    ELSE LET r == Field_deserialize(Obj[self].element_field, Drop(data, offset), len)
         IN  IF r.err # "" THEN Raised(r.err, r.length)
             ELSE DynamicList_deserialize_loop(self, data, n - 1,
                      offset + r.consumed, Append(elements, r.value), r.length)

DynamicList_deserialize(self, data, len) ==
    DynamicList_deserialize_loop(self, data, len[self], 0, <<>>, len)

\* the loop of DynamicList.serialize, from element i on
RECURSIVE DynamicList_serialize_loop(_, _, _, _, _)
DynamicList_serialize_loop(self, obj, i, data, len) ==
    IF i > Len(obj.v) THEN Encoded(data)
    ELSE LET r == Field_serialize(Obj[self].element_field, obj.v[i], len)
         IN  IF r.err # "" THEN r
             ELSE DynamicList_serialize_loop(self, obj, i + 1, data \o r.data, len)

DynamicList_serialize(self, obj, len) ==
    DynamicList_serialize_loop(self, obj, 1, <<>>, len)

\* EncodedLength.deserialize, had it decoded the element on data, not data[offset:]
EncodedLength_deserialize_unsliced(self, data, len) ==
    LET l == Field_deserialize(Obj[self].length_field, data, len)
    IN  IF l.err # "" THEN l
        ELSE LET injected == [l.length EXCEPT ![Obj[self].element_field] = l.value.v]
                 e == Field_deserialize(Obj[self].element_field, data, injected)
             IN  IF e.err # "" THEN e
                 ELSE Returned(e.value, l.consumed + e.consumed, e.length)

EncodedLength_deserialize(self, data, len) ==
    LET l == Field_deserialize(Obj[self].length_field, data, len)
    IN  IF l.err # "" THEN l
        ELSE LET injected == [l.length EXCEPT ![Obj[self].element_field] = l.value.v]
                 e == Field_deserialize(Obj[self].element_field,
                                        Drop(data, l.consumed), injected)
             IN  IF e.err # "" THEN e
                 ELSE Returned(e.value, l.consumed + e.consumed, e.length)

EncodedLength_serialize(self, obj, len) ==
    LET l == Field_serialize(Obj[self].length_field, VInt(PyLen(obj)), len)
    IN  IF l.err # "" THEN l
        ELSE LET e == Field_serialize(Obj[self].element_field, obj, len)
             IN  IF e.err # "" THEN e ELSE Encoded(l.data \o e.data)

(***************************************************************************)
(* seri/serializers.py: schema reflection.  A class body is the ordered    *)
(* dict of its attributes; a value is a field object or something else.    *)
(***************************************************************************)

\* isinstance(value, BaseField)
IsField(value) == value \in FieldIds

\* SerializerMeta._get_fields
RECURSIVE SerializerMeta_get_fields(_)
SerializerMeta_get_fields(attrs) ==
    IF attrs = <<>> THEN <<>>
    ELSE (IF IsField(attrs[1][2]) THEN <<attrs[1]>> ELSE <<>>)
         \o SerializerMeta_get_fields(Tail(attrs))

\* SerializerMeta.__new__, had it put the bases' fields before the class's own
SerializerMeta_new_inheriting(name, bases, attrs) ==
    [name |-> name, bases |-> bases, attrs |-> attrs,
     fields |-> (IF bases = <<>> THEN <<>> ELSE bases[1].fields)
                \o SerializerMeta_get_fields(attrs)]

\* SerializerMeta.__new__: the class made from a class statement with the given
\* base classes and body; attrs['fields'] is kept as the class's `fields`
SerializerMeta_new(name, bases, attrs) ==
    [name |-> name, bases |-> bases, attrs |-> attrs,
     fields |-> SerializerMeta_get_fields(attrs)]

\* class Serializer(metaclass=SerializerMeta): fields = {}
SerializerClass == SerializerMeta_new("Serializer", <<>>, <<>>)

\* the schema of the NestedSerializer field object
InnerClass ==
    SerializerMeta_new("Inner", <<SerializerClass>>,
                       << <<"x", "in_x">>, <<"y", "in_y">> >>)

(***************************************************************************)
(* seri/serializers.py: the engine.  `self` is the class of the instance.  *)
(***************************************************************************)

\* the predicates a caller hangs on a field: called with
\* (self, name, field, attrs, data, offset)
deserialize_predicate_call(p, name, attrs, data, offset) ==
    IF p = "has_more" THEN offset < Len(data) ELSE FALSE

\* called with (self, name, field, attrs, data)
serialize_predicate_call(p, name, attrs, data) ==
    IF p = "in_attrs" THEN DictHas(attrs, name) ELSE FALSE

\* attrs[name] = value
DictSet(attrs, name, value) ==
    IF DictHas(attrs, name)
    THEN [i \in 1..Len(attrs) |->
             IF attrs[i][1] = name THEN <<name, value>> ELSE attrs[i]]
    ELSE Append(attrs, <<name, value>>)

DeserializeRaised(err, len, trace) ==
    [err |-> err, value |-> None, consumed |-> 0, length |-> len, trace |-> trace]

\* the loop of Serializer.deserialize, had it handed each field data, not
\* data[offset:]
Serializer_deserialize_loop_unsliced(self, i, attrs, offset, data, len, trace) ==
    IF i > Len(self.fields)
    THEN [err |-> "", value |-> VDict(attrs), consumed |-> offset,
          length |-> len, trace |-> trace]
    ELSE
    LET name == self.fields[i][1]
        field == self.fields[i][2]
        p == deserialize_predicate[field]
    IN  IF p = "missing" THEN DeserializeRaised("AttributeError", len, trace)
        ELSE IF p = "None" \/ deserialize_predicate_call(p, name, attrs, data, offset)
        THEN LET r == Field_deserialize(field, data, len)
                 v == BaseField_validate(field, r.value)
                 t == Append(trace, [name |-> name, offset |-> offset,
                                     consumed |-> r.consumed, validate |-> v])
             IN  IF r.err # "" THEN DeserializeRaised(r.err, r.length, trace)
                 ELSE IF v # "" THEN DeserializeRaised(v, r.length, t)
                 ELSE Serializer_deserialize_loop(self, i + 1,
                          DictSet(attrs, name, r.value), offset + r.consumed,
                          data, r.length, t)
        ELSE Serializer_deserialize_loop(self, i + 1, attrs, offset, data, len, trace)

\* the loop of Serializer.deserialize, had it not called field.validate
Serializer_deserialize_loop_unvalidated(self, i, attrs, offset, data, len, trace) ==
    IF i > Len(self.fields)
    THEN [err |-> "", value |-> VDict(attrs), consumed |-> offset,
          length |-> len, trace |-> trace]
    ELSE
    LET name == self.fields[i][1]
        field == self.fields[i][2]
        p == deserialize_predicate[field]
    IN  IF p = "missing" THEN DeserializeRaised("AttributeError", len, trace)
        ELSE IF p = "None" \/ deserialize_predicate_call(p, name, attrs, data, offset)
        THEN LET r == Field_deserialize(field, Drop(data, offset), len)
                 t == Append(trace, [name |-> name, offset |-> offset,
                                     consumed |-> r.consumed, validate |-> ""])
             IN  IF r.err # "" THEN DeserializeRaised(r.err, r.length, trace)
                 ELSE Serializer_deserialize_loop(self, i + 1,
                          DictSet(attrs, name, r.value), offset + r.consumed,
                          data, r.length, t)
        ELSE Serializer_deserialize_loop(self, i + 1, attrs, offset, data, len, trace)

\* the loop of Serializer.deserialize, at field i of self.fields.  trace lists
\* the field decodes that returned: where each began, what it consumed and what
\* validate did with the value.
Serializer_deserialize_loop(self, i, attrs, offset, data, len, trace) ==
    IF i > Len(self.fields)
    THEN [err |-> "", value |-> VDict(attrs), consumed |-> offset,
          length |-> len, trace |-> trace]
    ELSE
    LET name == self.fields[i][1]
        field == self.fields[i][2]
        p == deserialize_predicate[field]
    IN  IF p = "missing" THEN DeserializeRaised("AttributeError", len, trace)
        ELSE IF p = "None" \/ deserialize_predicate_call(p, name, attrs, data, offset)
        THEN LET r == Field_deserialize(field, Drop(data, offset), len)
                 v == BaseField_validate(field, r.value)
                 t == Append(trace, [name |-> name, offset |-> offset,
                                     consumed |-> r.consumed, validate |-> v])
             IN  IF r.err # "" THEN DeserializeRaised(r.err, r.length, trace)
                 ELSE IF v # "" THEN DeserializeRaised(v, r.length, t)
                 ELSE Serializer_deserialize_loop(self, i + 1,
                          DictSet(attrs, name, r.value), offset + r.consumed,
                          data, r.length, t)
        ELSE Serializer_deserialize_loop(self, i + 1, attrs, offset, data, len, trace)

Serializer_deserialize(self, data, len) ==
    Serializer_deserialize_loop(self, 1, <<>>, 0, data, len, <<>>)

SerializeRaised(err, trace) == [err |-> err, data |-> <<>>, trace |-> trace]

\* the loop of Serializer.serialize, at field i of self.fields.  trace lists the
\* names of the fields encoded.
RECURSIVE Serializer_serialize_loop(_, _, _, _, _, _)
Serializer_serialize_loop(self, i, attrs, data, len, trace) ==
    IF i > Len(self.fields)
    THEN [err |-> "", data |-> data, trace |-> trace]
    ELSE
    LET name == self.fields[i][1]
        field == self.fields[i][2]
        p == serialize_predicate[field]
    IN  IF p = "missing" THEN SerializeRaised("AttributeError", trace)
        ELSE IF p = "None" \/ serialize_predicate_call(p, name, attrs, data)
        THEN IF ~DictHas(attrs, name) THEN SerializeRaised("KeyError", trace)
             ELSE LET r == Field_serialize(field, DictGet(attrs, name), len)
                  IN  IF r.err # "" THEN SerializeRaised(r.err, trace)
                      ELSE Serializer_serialize_loop(self, i + 1, attrs,
                               data \o r.data, len, Append(trace, name))
        ELSE Serializer_serialize_loop(self, i + 1, attrs, data, len, trace)

\* the keys of fields in the order of the record's keys, the others after them
FieldsInRecordOrder(fields, attrs) ==
    SelectSeq([i \in 1..Len(attrs) |->
                  <<attrs[i][1], DictGet(fields, attrs[i][1])>>],
              LAMBDA e : DictHas(fields, e[1]))
    \o SelectSeq(fields, LAMBDA e : ~DictHas(attrs, e[1]))

\* Serializer.serialize, had it walked the record's keys, not self.fields
Serializer_serialize_in_record_order(self, attrs, len) ==
    Serializer_serialize_loop(
        [self EXCEPT !.fields = FieldsInRecordOrder(self.fields, attrs)],
        1, attrs, <<>>, len, <<>>)

Serializer_serialize(self, attrs, len) ==
    Serializer_serialize_loop(self, 1, attrs, <<>>, len, <<>>)

\* the serializer instance a NestedSerializer was built with
SerializerOf(self) == InnerClass

NestedSerializer_deserialize(self, data, len) ==
    LET r == Serializer_deserialize(SerializerOf(self), data, len)
    IN  IF r.err # "" THEN Raised(r.err, r.length)
        ELSE Returned(r.value, r.consumed, r.length)

NestedSerializer_serialize(self, obj, len) ==
    LET r == Serializer_serialize(SerializerOf(self), obj.v, len)
    IN  IF r.err # "" THEN EncodeRaised(r.err) ELSE Encoded(r.data)

\* field.deserialize(data): the method of the object's class
Field_deserialize(self, data, len) ==
    LET cls == Obj[self].cls
    IN  CASE cls = "ByteArray" -> ByteArray_deserialize(self, data, len)
          [] cls \in {"UInt8", "UInt16"} -> UInt8_deserialize(self, data, len)
          [] cls = "ZString" -> ZString_deserialize(self, data, len)
          [] cls \in {"DynamicString", "FixedString"} ->
                DynamicString_deserialize(self, data, len)
          [] cls = "DynamicList" -> DynamicList_deserialize(self, data, len)
          [] cls = "EncodedLength" -> EncodedLength_deserialize(self, data, len)
          [] cls = "NestedSerializer" -> NestedSerializer_deserialize(self, data, len)

\* field.serialize(obj): the method of the object's class
Field_serialize(self, obj, len) ==
    LET cls == Obj[self].cls
    IN  CASE cls = "ByteArray" -> ByteArray_serialize(self, obj, len)
          [] cls \in {"UInt8", "UInt16"} -> UInt8_serialize(self, obj, len)
          [] cls = "ZString" -> ZString_serialize(self, obj, len)
          [] cls \in {"DynamicString", "FixedString"} ->
                DynamicString_serialize(self, obj, len)
          [] cls = "DynamicList" -> DynamicList_serialize(self, obj, len)
          [] cls = "EncodedLength" -> EncodedLength_serialize(self, obj, len)
          [] cls = "NestedSerializer" -> NestedSerializer_serialize(self, obj, len)

(***************************************************************************)
(* The inputs of the calls.                                                *)
(***************************************************************************)
ByteVals == {0, 1, 128}

\* NUL, C-cedilla (byte 128 of the code page) and the euro sign (no byte)
CharVals == {0, 199, 8364}

IntVals == {-1, 0, 255, 256, 65535, 65536}

SeqsUpTo(S, n) == UNION {[1..k -> S] : k \in 0..n}

\* bytes that are also small element counts
CountVals == {0, 1, 2}

Buffers == SeqsUpTo(ByteVals, MaxData)

\* whether decoding with field object f reads a DynamicList
RECURSIVE ReadsList(_)
ReadsList(f) ==
    \/ Obj[f].cls = "DynamicList"
    \/ Obj[f].cls = "EncodedLength" /\ ReadsList(Obj[f].element_field)

\* the buffers a test hands to field.deserialize: a list's count stays small
FieldBuffers(f) ==
    IF ReadsList(f) THEN SeqsUpTo(CountVals, MaxData) ELSE Buffers

\* the objects a test hands to field.serialize
FieldValues(f) ==
    LET cls == Obj[f].cls
    IN  CASE cls = "ByteArray" -> {VBytes(b) : b \in SeqsUpTo(ByteVals, MaxStr)}
          [] cls \in {"UInt8", "UInt16"} -> {VInt(n) : n \in IntVals}
          [] cls \in {"ZString", "DynamicString", "FixedString"} ->
                {VStr(c) : c \in SeqsUpTo(CharVals, MaxStr)}
          [] cls = "DynamicList" ->
                {VList(l) : l \in SeqsUpTo({VInt(1), VInt(256)}, MaxStr)}
          [] cls = "EncodedLength" ->
                IF Obj[Obj[f].element_field].cls = "DynamicList"
                THEN {VList(l) : l \in SeqsUpTo({VInt(1), VInt(256)}, MaxStr)}
                ELSE {VStr(c) : c \in SeqsUpTo(CharVals, MaxStr)}
          [] cls = "NestedSerializer" ->
                {VDict(<< <<"x", VInt(a)>>, <<"y", VInt(b)>> >>) : a, b \in {1, 128, 256}}
                \cup {VDict(<< <<"y", VInt(b)>>, <<"x", VInt(a)>> >>) : a, b \in {1, 128}}
                \cup {VDict(<< <<"x", VInt(1)>> >>)}

\* what a call leaves in `last`: the outcome without the length attributes
Outcome(r) == [k \in DOMAIN r \ {"length"} |-> r[k]]

NoCall == [op |-> "none"]

\* the threads that call into the library, and a thread with no call in flight
Threads == {"t1", "t2"}

Idle == [pc |-> "idle"]

NoFrames == [t \in Threads |-> Idle]

\* the attributes BaseField.__init__ and the class bodies set: no field object
\* has a deserialize_predicate or a serialize_predicate
Constructed ==
    /\ length = InitLength
    /\ deserialize_predicate = [f \in FieldIds |-> "missing"]
    /\ serialize_predicate = [f \in FieldIds |-> "missing"]
    /\ last = NoCall
    /\ frames = NoFrames

(***************************************************************************)
(* Calls on single field objects.                                          *)
(***************************************************************************)
FieldSerialize(f, obj) ==
    /\ last' = [op |-> "Field.serialize", self |-> f, obj |-> obj,
                out |-> Field_serialize(f, obj, length)]
    /\ UNCHANGED <<classes, length, deserialize_predicate, serialize_predicate, frames>>

FieldDeserialize(f, data) ==
    LET r == Field_deserialize(f, data, length)
    IN  /\ last' = [op |-> "Field.deserialize", self |-> f, data |-> data,
                    out |-> Outcome(r)]
        /\ length' = r.length
        /\ UNCHANGED <<classes, deserialize_predicate, serialize_predicate, frames>>

\* value, length = field.deserialize(field.serialize(obj))
FieldDeserializeOutput ==
    /\ last.op = "Field.serialize"
    /\ last.out.err = ""
    /\ LET r == Field_deserialize(last.self, last.out.data, length)
       IN  /\ last' = [op |-> "Field.roundtrip", self |-> last.self,
                       obj |-> last.obj, data |-> last.out.data, out |-> Outcome(r)]
           /\ length' = r.length
    /\ UNCHANGED <<classes, deserialize_predicate, serialize_predicate, frames>>

InitField ==
    /\ classes = <<>>
    /\ Constructed

\* the field objects the calls are made on; the others are reached through them
TestFields == {"ba", "u8", "u16", "zs", "fs", "ds", "el_s", "el_l", "ns"}

\* the calls of the tests: <<field object, argument>>
SerializeCalls == UNION {{<<f, obj>> : obj \in FieldValues(f)} : f \in TestFields}

DeserializeCalls == UNION {{<<f, data>> : data \in FieldBuffers(f)} : f \in TestFields}

NextField ==
    \/ \E call \in SerializeCalls : FieldSerialize(call[1], call[2])
    \/ \E call \in DeserializeCalls : FieldDeserialize(call[1], call[2])
    \/ FieldDeserializeOutput

SpecField == InitField /\ [][NextField]_vars

(***************************************************************************)
(* The fields, call by call.                                               *)
(***************************************************************************)
Zeros(n) == [i \in 1..n |-> 0]

\* the declared size of a fixed-size field object
DeclaredLength(f) == Obj[f].length

FixedSize(f) == Obj[f].cls \in {"ByteArray", "UInt8", "UInt16", "FixedString"}

\* C3: ByteArray(n).serialize(value) returns exactly n bytes: the first n bytes of
\* a longer value, a shorter value followed by zero bytes up to length n.
C3_ByteArraySerializePads ==
    (last.op = "Field.serialize" /\ Obj[last.self].cls = "ByteArray") =>
        LET n == DeclaredLength(last.self)
            value == last.obj.v
        IN  /\ last.out.err = ""
            /\ Len(last.out.data) = n
            /\ last.out.data = Take(value, n) \o Zeros(n - Len(Take(value, n)))

\* C7: ZString.serialize appends one null byte and rejects a string that holds a
\* null character, so every string it accepts decodes back to itself with
\* consumed = len(serialize(s)).
C7_ZStringRejectsNul ==
    /\ (last.op = "Field.serialize" /\ Obj[last.self].cls = "ZString") =>
           /\ (\E i \in 1..Len(last.obj.v) : last.obj.v[i] = 0) => last.out.err # ""
           /\ last.out.err = "" =>
                  /\ Len(last.out.data) = Len(last.obj.v) + 1
                  /\ last.out.data[Len(last.out.data)] = 0
    /\ (last.op = "Field.roundtrip" /\ Obj[last.self].cls = "ZString") =>
           /\ last.out.err = ""
           /\ last.out.value = last.obj
           /\ last.out.consumed = Len(last.data)

\* C8: decoding a fixed-size field on a buffer shorter than the field fails with
\* TruncatedInputError: no short value, no consumed length beyond the buffer.
C8_TruncatedInputError ==
    (/\ last.op = "Field.deserialize"
     /\ FixedSize(last.self)
     /\ Len(last.data) < DeclaredLength(last.self)) =>
        last.out.err = "TruncatedInputError"

\* the byte at position i of data, 0 past its end: what UInt8 reads there
ByteAt(data, i) == IF i <= Len(data) THEN data[i] ELSE 0

\* C10: EncodedLength.deserialize decodes the count k with the length field, then
\* the inner field on the rest of the buffer with its length set to k (k bytes
\* of a DynamicString, k elements of a DynamicList), and reports the bytes of the
\* length field plus the bytes of the inner field.
C10_EncodedLengthDeserialize ==
    (last.op = "Field.deserialize" /\ Obj[last.self].cls = "EncodedLength") =>
        LET k == ByteAt(last.data, 1)
            rest == Drop(last.data, 1)
            inner == Obj[last.self].element_field
        IN  /\ last.out.err = ""
            /\ length[inner] = k
            /\ Obj[inner].cls = "DynamicString" =>
                   /\ last.out.value = VStr(bytes_decode(Take(rest, k)))
                   /\ last.out.consumed = 1 + Len(Take(rest, k))
            /\ Obj[inner].cls = "DynamicList" =>
                   /\ last.out.value = VList([i \in 1..k |-> VInt(ByteAt(rest, i))])
                   /\ last.out.consumed = 1 + k

\* C10's case: a count of at least one, read before the bytes it counts
C10_Witness ==
    /\ last.op = "Field.deserialize"
    /\ Obj[last.self].cls = "EncodedLength"
    /\ Len(last.data) >= 2
    /\ last.data[1] >= 1
    /\ last.out.err = ""
    /\ last.out.consumed = 1 + last.data[1]

(***************************************************************************)
(* Class statements.                                                       *)
(***************************************************************************)
ClassNames == <<"BaseSerializer", "DerivedSerializer">>

\* attribute names, in an order that is not the alphabetical one
AttrNames == <<"second", "first", "third", "fourth">>

\* what a class body binds a name to: two field objects and a string
AttrValues == {"u8", "zs", "'not a field'"}

\* the class bodies of up to n attributes with values from S, each an ordered dict
Bodies(S, n) ==
    UNION {{[i \in 1..k |-> <<AttrNames[i], val[i]>>] : val \in [1..k -> S]} :
              k \in 0..n}

MetaBodies == Bodies(AttrValues, MaxFields)

\* class <name>(<base>): <body>, the base being Serializer (0) or a class defined
ClassDef(base, body) ==
    /\ Len(classes) < Len(ClassNames)
    /\ classes' = Append(classes,
           SerializerMeta_new(ClassNames[Len(classes) + 1],
               <<IF base = 0 THEN SerializerClass ELSE classes[base]>>, body))
    /\ UNCHANGED <<length, deserialize_predicate, serialize_predicate, last, frames>>

InitMeta ==
    /\ classes = <<>>
    /\ Constructed

NextMeta ==
    \E base \in 0..Len(classes) : \E body \in MetaBodies :
        ClassDef(base, body)

SpecMeta == InitMeta /\ [][NextMeta]_vars

\* C9: a schema class's `fields` holds exactly the attributes of its own body
\* that are BaseField instances, in declaration order; the fields of its bases
\* are never merged in, so a derived class declaring no field has no fields.
C9_OwnFieldsOnly ==
    \A c \in 1..Len(classes) :
        LET cl == classes[c]
            own == {i \in 1..Len(cl.attrs) : cl.attrs[i][2] \in FieldIds}
        IN  /\ Len(cl.fields) = Cardinality(own)
            /\ \A i \in 1..Len(cl.fields) :
                   \E j \in own :
                       /\ cl.fields[i] = cl.attrs[j]
                       /\ Cardinality({m \in own : m < j}) = i - 1
            /\ own = {} => cl.fields = <<>>

\* C9's case: a derived class whose base has a field, declaring a non-field
\* attribute before a field of its own
C9_Witness ==
    /\ Len(classes) = 2
    /\ classes[2].bases[1] = classes[1]
    /\ classes[1].fields # <<>>
    /\ Len(classes[2].attrs) = 2
    /\ classes[2].attrs[1][2] \notin FieldIds
    /\ Len(classes[2].fields) = 1

(***************************************************************************)
(* A schema under test: one class statement, the attributes a caller then  *)
(* hangs on its field objects, and serialize/deserialize calls on an       *)
(* instance.                                                               *)
(***************************************************************************)
TopFields == {"mg", "zs", "el_s", "ns"}

\* the class bodies that declare up to MaxFields different field objects
SchemaBodies ==
    {body \in Bodies(TopFields, MaxFields) :
        \A i, j \in 1..Len(body) : i # j => body[i][2] # body[j][2]}

\* the top-level field objects of a schema
TopObjects(fields) == {fields[i][2] : i \in 1..Len(fields)}

\* the field objects Serializer consults the predicates of: the schema's own and
\* those of the schema nested in it
RECURSIVE SchemaObjects(_)
SchemaObjects(fields) ==
    IF fields = <<>> THEN {}
    ELSE LET f == fields[1][2]
         IN  {f} \cup SchemaObjects(Tail(fields))
             \cup (IF Obj[f].cls = "NestedSerializer"
                   THEN {InnerClass.fields[i][2] : i \in 1..Len(InnerClass.fields)}
                   ELSE {})

\* <<deserialize_predicate, serialize_predicate>> as a caller sets them on one
\* field: present while input remains, encoded while the record has the key
PredicatePairs == {<<"has_more", "in_attrs">>}

\* the records handed to serialize: per field one of two values or no key, the
\* keys in declaration order or in the reverse order
EngineValues(f) ==
    LET cls == Obj[f].cls
    IN  CASE cls = "ByteArray" -> <<VBytes(<<1>>), VBytes(<<0>>)>>
          [] cls = "ZString" -> <<VStr(<<199>>), VStr(<<199, 0>>)>>
          [] cls = "EncodedLength" -> <<VStr(<<199, 0>>), VStr(<<>>)>>
          [] cls = "NestedSerializer" ->
                <<VDict(<< <<"y", VInt(2)>>, <<"x", VInt(1)>> >>),
                  VDict(<< <<"x", VInt(1)>> >>)>>

RECURSIVE RecordOf(_, _, _)
RecordOf(fields, pick, i) ==
    IF i > Len(fields) THEN <<>>
    ELSE (IF pick[i] = 0 THEN <<>>
          ELSE << <<fields[i][1], EngineValues(fields[i][2])[pick[i]]>> >>)
         \o RecordOf(fields, pick, i + 1)

Records(fields) ==
    UNION {{RecordOf(fields, pick, 1), Reverse(RecordOf(fields, pick, 1))} :
              pick \in [1..Len(fields) -> 0..2]}

\* attrs, offset = serializer.deserialize(data)
Deserialize(c, data) ==
    LET r == Serializer_deserialize(classes[c], data, length)
    IN  /\ last' = [op |-> "deserialize", data |-> data, out |-> Outcome(r)]
        /\ length' = r.length
        /\ UNCHANGED <<classes, deserialize_predicate, serialize_predicate, frames>>

\* data = serializer.serialize(attrs)
Serialize(c, attrs) ==
    /\ last' = [op |-> "serialize", attrs |-> attrs,
                out |-> Serializer_serialize(classes[c], attrs, length)]
    /\ UNCHANGED <<classes, length, deserialize_predicate, serialize_predicate, frames>>

\* attrs, offset = serializer.deserialize(serializer.serialize(attrs))
DeserializeOutput(c) ==
    /\ last.op = "serialize"
    /\ last.out.err = ""
    /\ LET r == Serializer_deserialize(classes[c], last.out.data, length)
       IN  /\ last' = [op |-> "roundtrip", attrs |-> last.attrs,
                       data |-> last.out.data, out |-> Outcome(r)]
           /\ length' = r.length
    /\ UNCHANGED <<classes, deserialize_predicate, serialize_predicate, frames>>

\* the class statement has run; the field objects are as constructed, or the
\* caller has set both predicate attributes of every field object of the schema:
\* to None, but for at most one top-level field g that gets a pair of predicates
Init ==
    /\ length = InitLength
    /\ last = NoCall
    /\ frames = NoFrames
    /\ \E body \in SchemaBodies :
          LET cl == SerializerMeta_new(ClassNames[1], <<SerializerClass>>, body)
              objs == SchemaObjects(cl.fields)
          IN  /\ classes = <<cl>>
              /\ \/ /\ deserialize_predicate = [f \in FieldIds |-> "missing"]
                    /\ serialize_predicate = [f \in FieldIds |-> "missing"]
                 \/ \E g \in TopObjects(cl.fields) \cup {""} : \E q \in PredicatePairs :
                       /\ deserialize_predicate = [f \in FieldIds |->
                              IF f \notin objs THEN "missing"
                              ELSE IF f = g THEN q[1] ELSE "None"]
                       /\ serialize_predicate = [f \in FieldIds |->
                              IF f \notin objs THEN "missing"
                              ELSE IF f = g THEN q[2] ELSE "None"]

Next ==
    \/ \E data \in Buffers : Deserialize(1, data)
    \/ \E attrs \in Records(classes[1].fields) : Serialize(1, attrs)
    \/ DeserializeOutput(1)

Spec == Init /\ [][Next]_vars

(***************************************************************************)
(* The engine, call by call.                                               *)
(***************************************************************************)
TheFields == classes[1].fields

Decoding == last.op \in {"deserialize", "roundtrip"}

\* no field object of the schema was given a predicate
NoPredicates ==
    \A f \in SchemaObjects(TheFields) :
        /\ deserialize_predicate[f] \in {"missing", "None"}
        /\ serialize_predicate[f] \in {"missing", "None"}

\* v satisfies the constraints of field object f
RECURSIVE ValidValue(_, _)
ValidValue(f, v) ==
    LET cls == Obj[f].cls
    IN  CASE cls = "ByteArray" ->
                /\ v.t = "bytes"
                /\ Len(v.v) = DeclaredLength(f)
                /\ BaseField_validate(f, v) = ""
          [] cls \in {"UInt8", "UInt16"} ->
                v.t = "int" /\ v.v >= 0 /\ v.v < Pow256(DeclaredLength(f))
          [] cls = "ZString" ->
                v.t = "str" /\ Encodable(v.v) /\ \A i \in 1..Len(v.v) : v.v[i] # 0
          [] cls = "EncodedLength" ->
                v.t = "str" /\ Encodable(v.v) /\ Len(v.v) < 256
          [] cls = "NestedSerializer" ->
                /\ v.t = "dict"
                /\ \A i \in 1..Len(InnerClass.fields) :
                       /\ DictHas(v.v, InnerClass.fields[i][1])
                       /\ ValidValue(InnerClass.fields[i][2],
                                     DictGet(v.v, InnerClass.fields[i][1]))

\* attrs has a valid value for every field and no other key
ValidRecord(fields, attrs) ==
    /\ Len(attrs) = Len(fields)
    /\ \A i \in 1..Len(fields) :
           /\ DictHas(attrs, fields[i][1])
           /\ ValidValue(fields[i][2], DictGet(attrs, fields[i][1]))

\* C1: for every schema of predicate-less fields and every record v of valid
\* values, serialize(v) returns and deserialize(serialize(v)) returns
\* (v, len(serialize(v))).
C1_RoundTrip ==
    (NoPredicates /\ last.op \in {"serialize", "roundtrip"}
        /\ ValidRecord(TheFields, last.attrs)) =>
        /\ last.out.err = ""
        /\ last.op = "roundtrip" =>
               /\ PyEq(last.out.value, VDict(last.attrs))
               /\ last.out.consumed = Len(last.data)

\* the sum of the consumed lengths of the first n entries of a trace
RECURSIVE ConsumedBy(_, _)
ConsumedBy(trace, n) ==
    IF n = 0 THEN 0 ELSE ConsumedBy(trace, n - 1) + trace[n].consumed

\* the entries of a trace that precede the field named name in the declaration
Before(trace, fields, i) ==
    SelectSeq(trace, LAMBDA e : \E j \in 1..(i - 1) : fields[j][1] = e.name)

\* whether field i of the schema is present in the buffer of the last decode: it
\* has no predicate, or its predicate holds at the offset the fields before it
\* have reached
Present(i) ==
    LET p == deserialize_predicate[TheFields[i][2]]
        before == Before(last.out.trace, TheFields, i)
    IN  \/ p \in {"missing", "None"}
        \/ p = "has_more" /\ ConsumedBy(before, Len(before)) < Len(last.data)

\* C2: deserialize decodes a field and stores it under its name exactly when the
\* field has no predicate or its predicate is true; a field built without a
\* predicate is always decoded, a field whose predicate is false is absent from
\* the Record and moves no offset.
C2_PresenceGating ==
    Decoding =>
        /\ last.out.err # "AttributeError"
        /\ last.out.err = "" =>
               /\ \A i \in 1..Len(TheFields) :
                      DictHas(last.out.value.v, TheFields[i][1]) <=> Present(i)
               /\ \A i \in 1..Len(TheFields) :
                      (\E e \in 1..Len(last.out.trace) :
                           last.out.trace[e].name = TheFields[i][1]) <=> Present(i)

\* the encodings of the fields named in which, in the order of fields
RECURSIVE InDeclaredOrder(_, _, _)
InDeclaredOrder(fields, attrs, which) ==
    IF fields = <<>> THEN <<>>
    ELSE (IF \E j \in 1..Len(which) : which[j] = fields[1][1]
          THEN Field_serialize(fields[1][2], DictGet(attrs, fields[1][1]), length).data
          ELSE <<>>)
         \o InDeclaredOrder(Tail(fields), attrs, which)

\* the position of name in the declaration
Position(fields, name) == CHOOSE i \in 1..Len(fields) : fields[i][1] = name

C5_OffsetAdditivity ==
    (Decoding /\ last.out.err = "") =>
        LET trace == last.out.trace
        IN  /\ last.out.consumed = ConsumedBy(trace, Len(trace))
            /\ \A i \in 1..Len(trace) :
                   LET at == ConsumedBy(trace, i - 1)
                       r == Field_deserialize(
                                TheFields[Position(TheFields, trace[i].name)][2],
                                Drop(last.data, at), length)
                   IN  /\ trace[i].offset = at
                       /\ r.err = ""
                       /\ trace[i].consumed = r.consumed
                       /\ DictGet(last.out.value.v, trace[i].name) = r.value

\* C5's case: a second field decoded after a first one of variable length, with
\* input left for it
C5_Witness ==
    /\ Decoding
    /\ last.out.err = ""
    /\ Len(last.out.trace) = 2
    /\ Obj[TheFields[1][2]].cls \in {"ZString", "EncodedLength"}
    /\ last.out.trace[2].offset >= 2
    /\ last.out.trace[2].offset < Len(last.data)

EncodedLength_deserialize_length(self, data, len) ==
    Field_deserialize(Obj[self].length_field, data, len)

\* EncodedLength.deserialize, had it left element_field.length alone
EncodedLength_deserialize_inject_skipped(self, k, len) == len

\* self.element_field.length = length
EncodedLength_deserialize_inject(self, k, len) ==
    [len EXCEPT ![Obj[self].element_field] = k]

\* element, element_length = self.element_field.deserialize(data[offset:])
EncodedLength_deserialize_element(self, data, offset, len) ==
    Field_deserialize(Obj[self].element_field, Drop(data, offset), len)

\* the EncodedLength objects the threads share
RaceFields == {"el_s", "el_l"}

\* the buffers the threads decode: a count, then that many bytes or fewer
RaceBuffers ==
    {<<>>} \cup {<<k>> \o rest : k \in CountVals, rest \in SeqsUpTo({65}, MaxData - 1)}

InFlight(fr) == fr.pc \in {"decode_length", "inject", "decode_element"}

\* thread t calls self.deserialize(data); every thread uses the same object
ThreadCall(t, self, data) ==
    /\ ~InFlight(frames[t])
    /\ \A u \in Threads \ {t} : frames[u].pc # "idle" => frames[u].self = self
    /\ frames' = [u \in Threads |->
          IF u = t
          THEN [pc |-> "decode_length", self |-> self, data |-> data,
                overlapped |-> \E w \in Threads \ {t} : InFlight(frames[w])]
          ELSE IF InFlight(frames[u])
               THEN [frames[u] EXCEPT !.overlapped = TRUE]
               ELSE frames[u]]
    /\ UNCHANGED <<classes, length, deserialize_predicate, serialize_predicate, last>>

\* fields.py line 123
ThreadDecodeLength(t) ==
    LET fr == frames[t]
        l == EncodedLength_deserialize_length(fr.self, fr.data, length)
    IN  /\ fr.pc = "decode_length"
        /\ frames' = [frames EXCEPT ![t] =
              IF l.err # ""
              THEN [pc |-> "returned", self |-> fr.self, data |-> fr.data,
                    overlapped |-> fr.overlapped, out |-> Outcome(l)]
              ELSE [pc |-> "inject", self |-> fr.self, data |-> fr.data,
                    overlapped |-> fr.overlapped,
                    k |-> l.value.v, offset |-> l.consumed]]
        /\ length' = l.length
        /\ UNCHANGED <<classes, deserialize_predicate, serialize_predicate, last>>

\* fields.py line 124; a thread between its own line 124 and its read of
\* element_field.length has its injected length overwritten
ThreadInject(t) ==
    LET fr == frames[t]
    IN  /\ fr.pc = "inject"
        /\ length' = EncodedLength_deserialize_inject(fr.self, fr.k, length)
        /\ frames' = [u \in Threads |->
              IF u = t
              THEN [pc |-> "decode_element", self |-> fr.self, data |-> fr.data,
                    overlapped |-> fr.overlapped, k |-> fr.k,
                    offset |-> fr.offset, clobbered |-> FALSE]
              ELSE IF frames[u].pc = "decode_element"
                   THEN [frames[u] EXCEPT !.clobbered = TRUE]
                   ELSE frames[u]]
        /\ UNCHANGED <<classes, deserialize_predicate, serialize_predicate, last>>

\* fields.py lines 125-126
ThreadDecodeElement(t) ==
    LET fr == frames[t]
        e == EncodedLength_deserialize_element(fr.self, fr.data, fr.offset, length)
    IN  /\ fr.pc = "decode_element"
        /\ frames' = [frames EXCEPT ![t] =
              [pc |-> "returned", self |-> fr.self, data |-> fr.data,
               overlapped |-> fr.overlapped, k |-> fr.k, offset |-> fr.offset,
               clobbered |-> fr.clobbered,
               used |-> length[Obj[fr.self].element_field],
               out |-> IF e.err # "" THEN Outcome(e)
                       ELSE Outcome(Returned(e.value, fr.offset + e.consumed,
                                             e.length))]]
        /\ length' = e.length
        /\ UNCHANGED <<classes, deserialize_predicate, serialize_predicate, last>>

InitRace ==
    /\ classes = <<>>
    /\ Constructed

NextRace ==
    \E t \in Threads :
        \/ \E self \in RaceFields : \E data \in RaceBuffers :
              ThreadCall(t, self, data)
        \/ ThreadDecodeLength(t)
        \/ ThreadInject(t)
        \/ ThreadDecodeElement(t)

SpecRace == InitRace /\ [][NextRace]_vars

\* the calls that have returned a value after decoding the element
Decoded(t) ==
    /\ frames[t].pc = "returned"
    /\ frames[t].out.err = ""

\* C11: a decode call that no other call on the same object overlapped reads
\* back the length of its own buffer's prefix and returns what the call returns
\* when run alone; a call decodes with another length only when another call
\* wrote element_field.length between its own write and its element decode.
C11_RaceOnInjectedLength ==
    \A t \in Threads :
        Decoded(t) =>
            /\ ~frames[t].overlapped =>
                  /\ frames[t].used = frames[t].k
                  /\ ~frames[t].clobbered
                  /\ frames[t].out =
                        Outcome(EncodedLength_deserialize(frames[t].self,
                                                          frames[t].data, length))
            /\ frames[t].used # frames[t].k => frames[t].clobbered

\* a call whose buffer holds the k elements its prefix announces returns a
\* value of another length, another call having overwritten the injected length
C11_Witness ==
    \E t \in Threads :
        /\ Decoded(t)
        /\ frames[t].overlapped
        /\ frames[t].clobbered
        /\ frames[t].used # frames[t].k
        /\ Len(frames[t].data) - frames[t].offset >= frames[t].k
        /\ PyLen(frames[t].out.value) # frames[t].k

(***************************************************************************)
(* The field objects across calls.  Of a field object's attributes only    *)
(* `length` is ever assigned after construction (fields.py line 124); the  *)
(* others are the constants of Obj.                                        *)
(***************************************************************************)
\* C12: after any sequence of serialize and deserialize calls every field
\* object has the configuration it was constructed with; in particular the
\* length of the DynamicString inside an EncodedLength is what it was before
\* the decode call.
C12_ImmutableConfiguration ==
    \A f \in FieldIds : length[f] = InitLength[f]

\* C13: a decode call returns what the same call returns on the objects as
\* constructed, so two calls with the same buffer on the same field object
\* return the same (value, consumed) whatever calls were made in between.
C13_DecodeFunctionOfBuffer ==
    last.op \in {"Field.deserialize", "Field.roundtrip"} =>
        last.out = Outcome(Field_deserialize(last.self, last.data, InitLength))

====
